---- MODULE Spec2Model ----
(***************************************************************************)
(* Model of save_editor_scripts/remove_extra_precepts.py: the duplicate    *)
(* precept tracker (DuplicatePreceptCollection), the two-pass scanner      *)
(* (parse_ideo / parse_precepts / clean_precepts) and the backup/rewrite   *)
(* driver (main / backup_save_file).                                       *)
(***************************************************************************)
EXTENDS Integers, Sequences, FiniteSets, TLC

(***************************************************************************)
(* Bounds of the model.                                                    *)
(***************************************************************************)
\* <li> elements (ideologies and their precept entries together) of the
\* documents the scanner is run on
MaxLi == 6
\* precept entries of the documents whole runs of main are started on
MaxEntriesMain == 3
\* successive runs of the tool on the same target path
MaxRuns == 2
\* backup files that may exist before the first run
MaxPre == 2
\* append calls per name when the collection is driven on its own
MaxAppends == 2

(***************************************************************************)
(* Values.                                                                 *)
(***************************************************************************)
None == "None"
\* precept names and definition identifiers, in the order in which a
\* document first uses them
NameOrder == <<"Nudity_Prude", "Cannibalism_Acceptable">>
DefOrder == <<"defA", "defB", "defC">>

HEADER == "<?xml version=\"1.0\" encoding=\"utf-8\" ?>"
\* the declaration lxml's tostring(root, encoding="utf8") emits
LXML_DECL == "<?xml version='1.0' encoding='utf8'?>"

\* a precept entry <li>: cls is the presence of the "Class" attribute, name
\* and def are the texts of its <name> and <def> children (None: no child,
\* or a child without text)
Entry(c, n, d) == [cls |-> c, name |-> n, def |-> d]

\* an ideology <li>: its <name> text and its <precepts> node
Ideo(n, hp, ps) == [name |-> n, hasPrecepts |-> hp, precepts |-> ps]

\* the document tree: whether /savegame/game/world/ideoManager/ideos
\* resolves, and the ideology entries below it
Tree(hi, is) == [hasIdeos |-> hi, ideos |-> is]
NoTree == Tree(FALSE, <<>>)

\* lines of a text: a declaration line, the root element, or junk
DeclLine(d) == [kind |-> "decl", decl |-> d, tree |-> NoTree]
ElemLine(t) == [kind |-> "elem", decl |-> None, tree |-> t]
JunkLine == [kind |-> "junk", decl |-> None, tree |-> NoTree]

\* Python values: bytes and str never compare equal
Bytes(ls) == [type |-> "bytes", lines |-> ls]
Str(ls) == [type |-> "str", lines |-> ls]
PyEq_by_text(a, b) == a.lines = b.lines
PyEq(a, b) == a.type = b.type /\ a.lines = b.lines
decode(b) == Str(b.lines)
encode(s) == Bytes(s.lines)

\* sequences over S of length at most n
SeqUpTo(S, n) == UNION {[1..k -> S] : k \in 0..n}

Range(f) == {f[x] : x \in DOMAIN f}

(***************************************************************************)
(* DuplicatePreceptCollection: the four dictionaries.                      *)
(***************************************************************************)
EmptyDict == [k \in {} |-> 0]
Put(d, k, v) == [x \in DOMAIN d \cup {k} |-> IF x = k THEN v ELSE d[x]]

EmptyCollection ==
    [names |-> EmptyDict, def_names |-> EmptyDict,
     names_to_defs |-> EmptyDict, defs_to_names |-> EmptyDict]

\* count(name=...)
count(dp, name) == IF name \notin DOMAIN dp.names THEN 1 ELSE dp.names[name]

\* the list that append leaves under names_to_defs[name]
AppendedDefs(dp, def_name, name) ==
    IF name \notin DOMAIN dp.names_to_defs
    THEN <<def_name, def_name>>
    ELSE Append(dp.names_to_defs[name], def_name)

append(dp, def_name, name) ==
    [names |-> Put(dp.names, name,
                   IF name \in DOMAIN dp.names THEN dp.names[name] + 1 ELSE 1),
     def_names |-> Put(dp.def_names, def_name,
                   IF def_name \in DOMAIN dp.def_names
                   THEN dp.def_names[def_name] + 1 ELSE 1),
     names_to_defs |-> Put(dp.names_to_defs, name, AppendedDefs(dp, def_name, name)),
     defs_to_names |-> IF def_name \notin DOMAIN dp.defs_to_names
                       THEN Put(dp.defs_to_names, def_name, name)
                       ELSE dp.defs_to_names]

remove_def_below_zero(dp, def_name) ==
    IF def_name \in DOMAIN dp.def_names /\ dp.def_names[def_name] >= 0
    THEN [dp EXCEPT !.def_names[def_name] = @ - 1]
    ELSE dp

\* __remove__(def_name=...) and __remove__(name=...)
remove_def(dp, def_name) ==
    IF def_name \in DOMAIN dp.def_names /\ dp.def_names[def_name] > 0
    THEN [dp EXCEPT !.def_names[def_name] = @ - 1]
    ELSE dp

remove_name(dp, name) ==
    IF name \in DOMAIN dp.names /\ dp.names[name] > 0
    THEN [dp EXCEPT !.names[name] = @ - 1]
    ELSE dp

\* remove(def_name=...); defs_to_names[def_name] raises KeyError when the
\* identifier was never recorded
remove_by_def_raises(dp, def_name) == def_name \notin DOMAIN dp.defs_to_names

remove_by_def(dp, def_name) ==
    remove_name(remove_def(dp, def_name), dp.defs_to_names[def_name])

\* remove(name=...); names_to_defs[name] raises KeyError when the name was
\* never recorded
remove_by_name_raises(dp, name) == name \notin DOMAIN dp.names_to_defs

RECURSIVE remove_each_def(_, _, _)
remove_each_def(dp, defs, i) ==
    IF i > Len(defs) THEN dp
    ELSE remove_each_def(remove_def(dp, defs[i]), defs, i + 1)

remove_by_name(dp, name) ==
    remove_each_def(remove_name(dp, name), dp.names_to_defs[name], 1)

\* items(): the (key, count) pairs of the name counts and of the definition
\* counts; the order of the list plays no part in what is reported
items(dp) ==
    {<<k, dp.names[k]>> : k \in DOMAIN dp.names}
    \cup {<<k, dp.def_names[k]>> : k \in DOMAIN dp.def_names}

(***************************************************************************)
(* Text helpers and the XML library.                                       *)
(***************************************************************************)
firstline(text) == text.lines[1]
startswith(line, prefix) == line.kind = "decl" /\ line.decl = prefix
insert_firstline(text, new_line) ==
    [text EXCEPT !.lines = <<DeclLine(new_line)>> \o text.lines]

\* fromstring raises XMLSyntaxError unless the bytes are one root element,
\* with at most one declaration and that declaration on the first line
Parseable(b) ==
    /\ Len(b.lines) \in {1, 2}
    /\ b.lines[Len(b.lines)].kind = "elem"
    /\ Len(b.lines) = 2 => b.lines[1].kind = "decl"
fromstring(b) == b.lines[Len(b.lines)].tree
\* tostring(root, encoding="utf8"): lxml's own declaration, then the tree
tostring(root) == Bytes(<<DeclLine(LXML_DECL), ElemLine(root)>>)

\* main, lines 484-490: the text that reaches the comparison and the write;
\* the value insert_firstline returns is not assigned to anything
main_new_file_contents(root) ==
    LET text == decode(tostring(root))
        inserted == insert_firstline(text, HEADER)
    IN  IF ~startswith(firstline(text), HEADER) THEN text ELSE text

(***************************************************************************)
(* The file system: the target path and its backup names.  A path is the   *)
(* sequence of suffixes appended to the target path: <<>> is <file>,       *)
(* <<BAK>> is <file>.bak, <<BAK, 1>> is <file>.bak.1, <<BAK, 1, 2>> is     *)
(* <file>.bak.1.2.                                                         *)
(***************************************************************************)
BAK == 0
file_path == <<>>
NoPath == <<-1>>
Absent == [type |-> "absent", lines |-> <<>>]
exists(files, p) == files[p] # Absent

\* <file>.bak.1.2...k
Chain(k) == <<BAK>> \o [i \in 1..k |-> i]
\* <file>.bak.k
Numbered(k) == IF k = 0 THEN <<BAK>> ELSE <<BAK, k>>

BackupPaths ==
    {Chain(k) : k \in 0..(MaxPre + MaxRuns)} \cup {Numbered(k) : k \in 0..(MaxPre + MaxRuns)}
Paths == {file_path} \cup BackupPaths
\* the names under which a backup may exist before the first run: the first
\* MaxPre names backup_save_file tries, and one name it never tries
PrePaths == {Chain(k) : k \in 0..(MaxPre - 1)} \cup {Numbered(MaxPre)}

shutil_move_lost(files, src, dst) == [files EXCEPT ![src] = Absent]

shutil_move(files, src, dst) == [files EXCEPT ![dst] = files[src], ![src] = Absent]

RECURSIVE free_backup(_, _, _)
free_backup(files, backup_file, last_index) ==
    IF backup_file \in DOMAIN files /\ exists(files, backup_file)
    THEN free_backup(files, Append(backup_file, last_index), last_index + 1)
    ELSE backup_file

backup_name_unprobed(files, path) == Append(path, BAK)

\* the name backup_save_file moves the file to
backup_name(files, path) == free_backup(files, Append(path, BAK), 1)

(***************************************************************************)
(* The scanner's pure parts.                                               *)
(***************************************************************************)
Usable_despite_class(e) == e.name # None /\ e.def # None

\* the four skip rules shared by parse_precepts and clean_precepts
Usable(e) == ~e.cls /\ e.name # None /\ e.def # None

ScanEntry_cache_first(st, e) ==
    IF ~Usable(e) THEN st
    ELSE [dp |-> append(st.dp, e.def, e.name), cache |-> Append(st.cache, e.name)]

\* one iteration of the first loop of parse_precepts
ScanEntry(st, e) ==
    IF ~Usable(e) THEN st
    ELSE [dp |-> IF e.name \in Range(st.cache)
                 THEN append(st.dp, e.def, e.name) ELSE st.dp,
          cache |-> Append(st.cache, e.name)]

RECURSIVE ScanFrom(_, _, _)
ScanFrom(st, entries, i) ==
    IF i > Len(entries) THEN st
    ELSE ScanFrom(ScanEntry(st, entries[i]), entries, i + 1)

\* the first loop of parse_precepts: the collection's dictionaries are the
\* class attributes, so the loop starts from what they hold already
first_pass(dp, entries) == ScanFrom([dp |-> dp, cache |-> <<>>], entries, 1).dp

ShouldPrompt_any_count(dp, e) ==
    /\ Usable(e)
    /\ e.name \in DOMAIN dp.names
    /\ e.def \in DOMAIN dp.def_names

\* the condition under which clean_precepts asks for a confirmation
ShouldPrompt(dp, e) ==
    /\ Usable(e)
    /\ e.name \in DOMAIN dp.names
    /\ e.def \in DOMAIN dp.def_names
    /\ count(dp, e.name) > 1

\* the children left under <precepts>: the entries of found_precepts that
\* have not been removed, in document order
RECURSIVE Children(_, _, _)
Children(entries, keep, i) ==
    IF i > Len(entries) THEN <<>>
    ELSE (IF i \in keep THEN <<entries[i]>> ELSE <<>>) \o Children(entries, keep, i + 1)

(***************************************************************************)
(* State.                                                                  *)
(***************************************************************************)
VARIABLES
    fs,                 \* the files: path -> bytes on disk, or Absent
    fs_start,           \* the files as the current run found them
    run,                \* number of the current run of the tool
    pc,                 \* position of the run in main
    outcome,            \* how the run ended, None while it runs
    file_contents,      \* main: the bytes read from the target path
    root,               \* main: the parsed tree, mutated in place
    ideo_index,         \* parse_ideo: position in found_ideos
    found_precepts,     \* parse_ideo: the <li> list of the current ideology
    kept,               \* positions of found_precepts still under <precepts>
    precept_index,      \* clean_precepts: position in found_precepts
    duplicate_precepts, \* the dictionaries of DuplicatePreceptCollection
    prompts,            \* the Confirm.ask calls of the run, with their answers
    residual,           \* the "Failed to remove extra precept" lines last printed
    backup_file,        \* backup_save_file: the name the file was moved to
    new_file_contents   \* main: the serialized text

vars == <<fs, fs_start, run, pc, outcome, file_contents, root, ideo_index, found_precepts,
          kept, precept_index, duplicate_precepts, prompts, residual,
          backup_file, new_file_contents>>

scan_vars == <<root, ideo_index, found_precepts, kept, precept_index,
               duplicate_precepts, prompts, residual>>

\* the order of the steps of main
MainSteps_backup_first ==
    <<"load", "backup", "locate", "parse_ideo", "serialize", "compare", "write">>

MainSteps ==
    <<"load", "locate", "parse_ideo", "backup", "serialize", "compare", "write">>

NextStep(step) ==
    LET i == CHOOSE j \in DOMAIN MainSteps : MainSteps[j] = step
    IN  IF i < Len(MainSteps) THEN MainSteps[i + 1] ELSE "exit"

\* how a run ends
ExitCode(o) ==
    CASE o \in {"Done", "NoChanges"} -> 0
      [] o \in {"NoIdeosNode", "FileNotFoundError", "XMLSyntaxError",
                "KeyError", "OSError"} -> 1
      [] OTHER -> -1

Exit(o) == pc' = "exit" /\ outcome' = o

(***************************************************************************)
(* Inputs.                                                                 *)
(***************************************************************************)
\* The scanner compares names with names and identifiers with identifiers
\* and does nothing else with them, so a document stands for all its
\* renamings: the documents below use the names of NameOrder and the
\* identifiers of DefOrder in that order of first use (over the entries of
\* the whole document).  A shape is the sequence of <<name number,
\* identifier number>> of a document's entries.
Min(a, b) == IF a < b THEN a ELSE b
Highest(shape, c) ==
    IF shape = <<>> THEN 0
    ELSE CHOOSE m \in {shape[i][c] : i \in DOMAIN shape} :
            \A i \in DOMAIN shape : shape[i][c] <= m

\* the shapes that extend a shape of S by one entry
Extend(S) ==
    {Append(t[1], <<t[2], t[3]>>) :
        t \in {u \in S \X (1..Len(NameOrder)) \X (1..Len(DefOrder)) :
                 /\ u[2] <= Highest(u[1], 1) + 1
                 /\ u[3] <= Highest(u[1], 2) + 1}}

RECURSIVE Shapes(_)
Shapes(n) == IF n = 0 THEN {<<>>} ELSE Extend(Shapes(n - 1))

EntriesOf(shape) ==
    [i \in DOMAIN shape |-> Entry(FALSE, NameOrder[shape[i][1]], DefOrder[shape[i][2]])]

\* the ways to cut n entries into k consecutive lists: c[m - 1] + 1 .. c[m]
\* are the entries of the m-th ideology
Cuts(n, k) ==
    {c \in [0..k -> 0..n] :
        c[0] = 0 /\ c[k] = n /\ \A m \in 1..k : c[m - 1] <= c[m]}

\* an ideology is a named one with a precepts node, or one without a name,
\* or one without a precepts node; the latter two hold no entries here
IdeoKinds == {"named", "unnamed", "noprecepts"}

Layouts(n, k) ==
    {l \in Cuts(n, k) \X [1..k -> IdeoKinds] :
        \A m \in 1..k : l[2][m] # "named" => l[1][m - 1] = l[1][m]}

IdeosOf(es, l) ==
    [m \in DOMAIN l[2] |->
        CASE l[2][m] = "named" ->
                Ideo("Transhumanist", TRUE, SubSeq(es, l[1][m - 1] + 1, l[1][m]))
          [] l[2][m] = "unnamed" -> Ideo(None, TRUE, <<>>)
          [] OTHER -> Ideo("Transhumanist", FALSE, <<>>)]

\* the documents of k ideologies and n precept entries
TreesOf(n, k) ==
    {Tree(TRUE, IdeosOf(EntriesOf(sh), l)) : sh \in Shapes(n), l \in Layouts(n, k)}

\* the entries that both passes skip: one with the "Class" attribute, one
\* without a name (no <name> child, or one without text), one without a
\* definition identifier
SkipKinds == {"Class", "noname", "nodef"}
Skipped(e, kind) ==
    CASE kind = "Class" -> Entry(TRUE, e.name, e.def)
      [] kind = "noname" -> Entry(FALSE, None, e.def)
      [] OTHER -> Entry(FALSE, e.name, None)

\* a document, and the documents that have one of its entries replaced by
\* an entry that is skipped
WithSkipped(t) ==
    {t} \cup
    {[t EXCEPT !.ideos[v[1]].precepts[v[2]] = Skipped(@, v[3])] :
        v \in {w \in (DOMAIN t.ideos) \X (1..MaxLi) \X SkipKinds :
                  w[2] <= Len(t.ideos[w[1]].precepts)}}

\* the sizes <<n, k>> of the documents the scanner is run on: at most MaxLi
\* <li> elements
ScanSizes == {r \in (0..MaxLi) \X (0..MaxLi) : r[1] + r[2] <= MaxLi}

\* the documents of size q the scanner is run on: those below the largest
\* size also with an entry that is skipped
ScanVariants(q, t) == IF q[1] + q[2] < MaxLi THEN WithSkipped(t) ELSE {t}

\* the files main is run on: documents of at most one ideology under any
\* first line, a document without the ideologies node, and a file that is
\* no XML
MainTrees ==
    UNION {TreesOf(q[1], q[2]) : q \in (0..MaxEntriesMain) \X (0..1)}
    \cup {NoTree}
MainFiles ==
    {Bytes(<<ElemLine(t)>>) : t \in MainTrees}
    \cup {Bytes(<<DeclLine(d), ElemLine(t)>>) : d \in {HEADER, LXML_DECL}, t \in MainTrees}
    \cup {Bytes(<<JunkLine>>), Absent}
OldBackup == Bytes(<<JunkLine, JunkLine>>)

ProcessStart ==
    /\ pc = "load"
    /\ outcome = None
    /\ file_contents = Absent
    /\ root = NoTree
    /\ ideo_index = 1
    /\ found_precepts = <<>>
    /\ kept = {}
    /\ precept_index = 1
    /\ duplicate_precepts = EmptyCollection
    /\ prompts = <<>>
    /\ residual = {}
    /\ backup_file = NoPath
    /\ new_file_contents = Absent

Init ==
    /\ \E f \in MainFiles, pre \in SUBSET PrePaths :
          fs = [p \in Paths |-> IF p = file_path THEN f
                                ELSE IF p \in pre THEN OldBackup ELSE Absent]
    /\ fs_start = fs
    /\ run = 1
    /\ ProcessStart

\* the state in which main calls parse_ideo, for every document of the
\* sizes of ScanSizes and its variants with a skipped entry
InitScan ==
    /\ \E q \in ScanSizes : \E u \in TreesOf(q[1], q[2]) : \E t \in ScanVariants(q, u) :
          /\ root = t
          /\ file_contents = tostring(t)
          /\ fs = [p \in Paths |-> IF p = file_path THEN tostring(t) ELSE Absent]
    /\ fs_start = fs
    /\ run = 1
    /\ pc = "parse_ideo"
    /\ outcome = None
    /\ ideo_index = 1
    /\ found_precepts = <<>>
    /\ kept = {}
    /\ precept_index = 1
    /\ duplicate_precepts = EmptyCollection
    /\ prompts = <<>>
    /\ residual = {}
    /\ backup_file = NoPath
    /\ new_file_contents = Absent

(***************************************************************************)
(* main, up to the call of parse_ideo.                                     *)
(***************************************************************************)
\* lines 443-463: the existence check, the read and the parse
Load ==
    /\ pc = "load"
    /\ IF ~exists(fs, file_path)
       THEN Exit("FileNotFoundError") /\ UNCHANGED <<file_contents, root>>
       ELSE /\ file_contents' = fs[file_path]
            /\ IF ~Parseable(fs[file_path])
               THEN Exit("XMLSyntaxError") /\ UNCHANGED root
               ELSE /\ root' = fromstring(fs[file_path])
                    /\ pc' = NextStep("load")
                    /\ UNCHANGED outcome
    /\ UNCHANGED <<fs, fs_start, run, ideo_index, found_precepts, kept, precept_index,
                   duplicate_precepts, prompts, residual, backup_file,
                   new_file_contents>>

\* lines 465-475: search_xml_tree_for_ideos and findall("li")
Locate ==
    /\ pc = "locate"
    /\ IF ~root.hasIdeos
       THEN Exit("NoIdeosNode")
       ELSE pc' = NextStep("locate") /\ UNCHANGED outcome
    /\ UNCHANGED <<fs, fs_start, run, file_contents, root, ideo_index, found_precepts, kept,
                   precept_index, duplicate_precepts, prompts, residual,
                   backup_file, new_file_contents>>

(***************************************************************************)
(* parse_ideo, parse_precepts, clean_precepts.                             *)
(***************************************************************************)
IdeoSkipped(ideo) == ideo.name = None \/ ~ideo.hasPrecepts

\* parse_ideo: the loop is over
ParseIdeoReturn ==
    /\ pc = "parse_ideo"
    /\ ideo_index > Len(root.ideos)
    /\ pc' = NextStep("parse_ideo")
    /\ UNCHANGED <<fs, fs_start, run, outcome, file_contents, backup_file, new_file_contents>>
    /\ UNCHANGED scan_vars

\* parse_ideo: an ideology without a name or without a precepts node
ParseIdeoSkip ==
    /\ pc = "parse_ideo"
    /\ ideo_index <= Len(root.ideos)
    /\ IdeoSkipped(root.ideos[ideo_index])
    /\ ideo_index' = ideo_index + 1
    /\ UNCHANGED <<fs, fs_start, run, pc, outcome, file_contents, root, found_precepts,
                   kept, precept_index, duplicate_precepts, prompts, residual,
                   backup_file, new_file_contents>>

\* parse_ideo calls parse_precepts, which runs its first loop and calls
\* clean_precepts
ParsePrecepts ==
    /\ pc = "parse_ideo"
    /\ ideo_index <= Len(root.ideos)
    /\ ~IdeoSkipped(root.ideos[ideo_index])
    /\ found_precepts' = root.ideos[ideo_index].precepts
    /\ kept' = DOMAIN root.ideos[ideo_index].precepts
    /\ duplicate_precepts' =
          first_pass(duplicate_precepts, root.ideos[ideo_index].precepts)
    /\ precept_index' = 1
    /\ pc' = "clean"
    /\ UNCHANGED <<fs, fs_start, run, outcome, file_contents, root, ideo_index, prompts,
                   residual, backup_file, new_file_contents>>

\* clean_precepts: an entry that is skipped or not asked about
CleanKeep ==
    /\ pc = "clean"
    /\ precept_index <= Len(found_precepts)
    /\ ~ShouldPrompt(duplicate_precepts, found_precepts[precept_index])
    /\ precept_index' = precept_index + 1
    /\ UNCHANGED <<fs, fs_start, run, pc, outcome, file_contents, root, ideo_index,
                   found_precepts, kept, duplicate_precepts, prompts, residual,
                   backup_file, new_file_contents>>

Confirmed_whatever_answer(answer) == TRUE

\* "Confirm.ask(...) is True": the removal is for the answer yes only
Confirmed(answer) == answer = TRUE

\* clean_precepts: Confirm.ask, and on "yes" the removal of the entry from
\* the tree and from the collection
CleanPrompt ==
    /\ pc = "clean"
    /\ precept_index <= Len(found_precepts)
    /\ ShouldPrompt(duplicate_precepts, found_precepts[precept_index])
    /\ \E answer \in BOOLEAN :
          LET e == found_precepts[precept_index] IN
          /\ prompts' = Append(prompts,
                [ideo |-> ideo_index, pos |-> precept_index,
                 name |-> e.name, def |-> e.def, answer |-> answer])
          /\ IF ~Confirmed(answer)
             THEN /\ precept_index' = precept_index + 1
                  /\ UNCHANGED <<pc, outcome, root, kept, duplicate_precepts>>
             ELSE /\ kept' = kept \ {precept_index}
                  /\ root' = [root EXCEPT !.ideos[ideo_index].precepts =
                                Children(found_precepts, kept', 1)]
                  /\ IF remove_by_def_raises(duplicate_precepts, e.def)
                     THEN /\ Exit("KeyError")
                          /\ UNCHANGED <<precept_index, duplicate_precepts>>
                     ELSE /\ duplicate_precepts' =
                                remove_by_def(duplicate_precepts, e.def)
                          /\ precept_index' = precept_index + 1
                          /\ UNCHANGED <<pc, outcome>>
    /\ UNCHANGED <<fs, fs_start, run, file_contents, ideo_index, found_precepts, residual,
                   backup_file, new_file_contents>>

\* clean_precepts: the report after the loop; parse_ideo goes on
CleanReport ==
    /\ pc = "clean"
    /\ precept_index > Len(found_precepts)
    /\ residual' = {<<kv[1], kv[2] - 1>> : kv \in {x \in items(duplicate_precepts) : x[2] > 1}}
    /\ ideo_index' = ideo_index + 1
    /\ pc' = "parse_ideo"
    /\ UNCHANGED <<fs, fs_start, run, outcome, file_contents, root, found_precepts, kept,
                   precept_index, duplicate_precepts, prompts, backup_file,
                   new_file_contents>>

(***************************************************************************)
(* main, after parse_ideo.                                                 *)
(***************************************************************************)
\* backup_save_file
Backup ==
    /\ pc = "backup"
    /\ backup_file' = backup_name(fs, file_path)
    /\ fs' = shutil_move(fs, file_path, backup_file')
    /\ pc' = NextStep("backup")
    /\ UNCHANGED <<fs_start, run, outcome, file_contents, new_file_contents>>
    /\ UNCHANGED scan_vars

\* lines 484-490
Serialize ==
    /\ pc = "serialize"
    /\ new_file_contents' = main_new_file_contents(root)
    /\ pc' = NextStep("serialize")
    /\ UNCHANGED <<fs, fs_start, run, outcome, file_contents, backup_file>>
    /\ UNCHANGED scan_vars

\* lines 492-494
Compare ==
    /\ pc = "compare"
    /\ IF PyEq(new_file_contents, file_contents)
       THEN Exit("NoChanges")
       ELSE pc' = NextStep("compare") /\ UNCHANGED outcome
    /\ UNCHANGED <<fs, fs_start, run, file_contents, backup_file, new_file_contents>>
    /\ UNCHANGED scan_vars

\* line 496: open(..., "w") creates or truncates the target
OpenWrite ==
    /\ pc = "write"
    /\ fs' = [fs EXCEPT ![file_path] = Bytes(<<>>)]
    /\ pc' = "writing"
    /\ UNCHANGED <<fs_start, run, outcome, file_contents, backup_file, new_file_contents>>
    /\ UNCHANGED scan_vars

\* lines 497-500: the write, "Done!" and exit 0
WriteDone ==
    /\ pc = "writing"
    /\ fs' = [fs EXCEPT ![file_path] = encode(new_file_contents)]
    /\ IF NextStep("write") = "exit" THEN Exit("Done")
       ELSE pc' = NextStep("write") /\ UNCHANGED outcome
    /\ UNCHANGED <<fs_start, run, file_contents, backup_file, new_file_contents>>
    /\ UNCHANGED scan_vars

\* line 497: the write fails (disk full, I/O error); the target stays as
\* open left it
WriteFail ==
    /\ pc = "writing"
    /\ Exit("OSError")
    /\ UNCHANGED <<fs, fs_start, run, file_contents, backup_file, new_file_contents>>
    /\ UNCHANGED scan_vars

\* the tool is started again on the same path: a new process
NextRun ==
    /\ pc = "exit"
    /\ run < MaxRuns
    /\ run' = run + 1
    /\ pc' = "load"
    /\ outcome' = None
    /\ file_contents' = Absent
    /\ root' = NoTree
    /\ ideo_index' = 1
    /\ found_precepts' = <<>>
    /\ kept' = {}
    /\ precept_index' = 1
    /\ duplicate_precepts' = EmptyCollection
    /\ prompts' = <<>>
    /\ residual' = {}
    /\ backup_file' = NoPath
    /\ new_file_contents' = Absent
    /\ fs_start' = fs
    /\ UNCHANGED fs

(***************************************************************************)
(* DuplicatePreceptCollection driven on its own: any sequence of append,   *)
(* remove(def_name=...) and remove(name=...) on the class's dictionaries.  *)
(***************************************************************************)
InitTracker ==
    /\ fs = [p \in Paths |-> Absent]
    /\ fs_start = fs
    /\ run = 1
    /\ pc = "tracker"
    /\ outcome = None
    /\ file_contents = Absent
    /\ root = NoTree
    /\ ideo_index = 1
    /\ found_precepts = <<>>
    /\ kept = {}
    /\ precept_index = 1
    /\ duplicate_precepts = EmptyCollection
    /\ prompts = <<>>
    /\ residual = {}
    /\ backup_file = NoPath
    /\ new_file_contents = Absent

tracker_frame ==
    <<fs, fs_start, run, file_contents, root, ideo_index, found_precepts, kept,
      precept_index, prompts, residual, backup_file, new_file_contents>>

TrackerAppend ==
    /\ pc = "tracker"
    /\ \E name \in Range(NameOrder), def_name \in Range(DefOrder) :
          /\ name \in DOMAIN duplicate_precepts.names_to_defs =>
                Len(duplicate_precepts.names_to_defs[name]) <= MaxAppends
          /\ duplicate_precepts' = append(duplicate_precepts, def_name, name)
    /\ UNCHANGED <<pc, outcome>>
    /\ UNCHANGED tracker_frame

TrackerRemoveDef ==
    /\ pc = "tracker"
    /\ \E def_name \in Range(DefOrder) :
          IF remove_by_def_raises(duplicate_precepts, def_name)
          THEN Exit("KeyError") /\ UNCHANGED duplicate_precepts
          ELSE /\ duplicate_precepts' = remove_by_def(duplicate_precepts, def_name)
               /\ UNCHANGED <<pc, outcome>>
    /\ UNCHANGED tracker_frame

TrackerRemoveName ==
    /\ pc = "tracker"
    /\ \E name \in Range(NameOrder) :
          IF remove_by_name_raises(duplicate_precepts, name)
          THEN Exit("KeyError") /\ UNCHANGED duplicate_precepts
          ELSE /\ duplicate_precepts' = remove_by_name(duplicate_precepts, name)
               /\ UNCHANGED <<pc, outcome>>
    /\ UNCHANGED tracker_frame

TrackerNext ==
    \/ TrackerAppend
    \/ TrackerRemoveDef
    \/ TrackerRemoveName

ScanNext ==
    \/ ParseIdeoReturn
    \/ ParseIdeoSkip
    \/ ParsePrecepts
    \/ CleanKeep
    \/ CleanPrompt
    \/ CleanReport

Next ==
    \/ Load
    \/ Locate
    \/ ScanNext
    \/ Backup
    \/ Serialize
    \/ Compare
    \/ OpenWrite
    \/ WriteDone
    \/ WriteFail
    \/ NextRun

\* runs of main, one after another on the same target path
Spec == Init /\ [][Next]_vars

\* parse_ideo on every document of the sizes of ScanSizes
SpecScan == InitScan /\ [][ScanNext]_vars

\* every sequence of calls on the collection
SpecTracker == InitTracker /\ [][TrackerNext]_vars

(***************************************************************************)
(* Properties.                                                             *)
(***************************************************************************)
\* the tree that was in the file when the run read it
OrigTree == fromstring(file_contents)

Loaded == file_contents # Absent /\ Parseable(file_contents)

\* positions i < j of two usable entries of the same name
DuplicatePairs(es) ==
    {<<i, j>> \in (DOMAIN es) \X (DOMAIN es) :
        i < j /\ Usable(es[i]) /\ Usable(es[j]) /\ es[i].name = es[j].name}

NoDuplicateNames(tree) ==
    \A k \in DOMAIN tree.ideos : DuplicatePairs(tree.ideos[k].precepts) = {}

\* the first ideology has just been scanned: its tracker was a fresh one
FirstIdeoScanned ==
    /\ pc = "parse_ideo"
    /\ ideo_index = 2
    /\ ~IdeoSkipped(OrigTree.ideos[1])

AllAccepted == \A k \in DOMAIN prompts : prompts[k].answer

\* C1: for an ideology with exactly one duplicate pair (one name twice, under
\* two different definition identifiers), scanned on a fresh tracker with
\* every confirmation accepted, there is exactly one prompt, it names the
\* second entry's definition identifier, and the precepts list is left
\* without the second entry of the pair.
C1_OnePairOnePrompt ==
    (/\ FirstIdeoScanned
     /\ Cardinality(DuplicatePairs(found_precepts)) = 1
     /\ \A d \in DuplicatePairs(found_precepts) :
           found_precepts[d[1]].def # found_precepts[d[2]].def
     /\ AllAccepted)
    => \A d \in DuplicatePairs(found_precepts) :
          /\ Len(prompts) = 1
          /\ prompts[1].def = found_precepts[d[2]].def
          /\ root.ideos[1].precepts =
                Children(found_precepts, DOMAIN found_precepts \ {d[2]}, 1)

\* the target has been opened for writing in this run
OpenedForWrite == pc = "writing" \/ outcome \in {"Done", "OSError"}

\* C2: once the file is loaded, its original contents are unmodified at the
\* target path (before the move) or in the backup file (after it), also when
\* the write fails; the target is opened for writing only after the move.
C2_NoDataLoss ==
    /\ Loaded =>
          IF backup_file = NoPath
          THEN fs[file_path] = file_contents
          ELSE fs[backup_file] = file_contents
    /\ OpenedForWrite => backup_file # NoPath /\ fs[backup_file] = file_contents

C2_Witness ==
    /\ outcome = "OSError"
    /\ fs[file_path] # file_contents
    /\ fs[backup_file] = file_contents

\* C3: the target is opened for writing only when the serialized output
\* differs byte for byte from the contents read; identical output ends the
\* run with "no changes".
C3_WrittenOnlyIfChanged ==
    /\ OpenedForWrite => encode(new_file_contents) # file_contents
    /\ (pc = "exit" /\ new_file_contents # Absent
          /\ encode(new_file_contents) = file_contents) => outcome = "NoChanges"

\* C4: every run on a file without duplicate names that ends with exit code
\* 0 reports "no changes", leaves the target byte-identical to its input and
\* has made one new backup; so do two runs in succession.
C4_RoundTrip ==
    (/\ pc = "exit"
     /\ ExitCode(outcome) = 0
     /\ NoDuplicateNames(OrigTree))
    => /\ outcome = "NoChanges"
       /\ fs[file_path] = file_contents
       /\ backup_file # NoPath
       /\ ~exists(fs_start, backup_file)
       /\ fs[backup_file] = file_contents

\* the number k of the first free name among <file>.bak, <file>.bak.1, ...
FirstFreeNumber(files) ==
    CHOOSE k \in 0..(MaxPre + MaxRuns) :
        /\ ~exists(files, Numbered(k))
        /\ \A j \in 0..(k - 1) : exists(files, Numbered(j))

\* C5: backup_save_file moves the file to the first free name of the
\* sequence <file>.bak, <file>.bak.1, <file>.bak.2, ...
C5_BackupNames ==
    [][(pc = "backup" /\ pc' # "backup") =>
          /\ backup_file' = Numbered(FirstFreeNumber(fs))
          /\ fs'[Numbered(FirstFreeNumber(fs))] = fs[file_path]]_vars

\* C6: the name the file is moved to did not exist just before the move, and
\* no step of any run removes or changes a backup file that exists.
C6_NoBackupOverwritten ==
    [][/\ \A p \in BackupPaths : exists(fs, p) => fs'[p] = fs[p]
       /\ (backup_file' # backup_file /\ backup_file' # NoPath) =>
             ~exists(fs, backup_file')]_vars

C6_Witness ==
    /\ backup_file = Chain(2)
    /\ fs[Chain(0)] = OldBackup
    /\ fs[Chain(1)] = OldBackup
    /\ fs[backup_file] = file_contents

\* the fatal aborts of main: missing file, unparseable document, ideologies
\* path not resolving
FatalAbort ==
    pc = "exit" /\ outcome \in {"FileNotFoundError", "XMLSyntaxError", "NoIdeosNode"}

C8_HeaderFirst ==
    /\ new_file_contents # Absent => startswith(firstline(new_file_contents), HEADER)
    /\ outcome = "Done" => startswith(fs[file_path].lines[1], HEADER)

\* C9: the tracker is empty when the first pass over an ideology starts.
C9_FreshTrackerPerIdeo ==
    (/\ pc = "parse_ideo"
     /\ ideo_index <= Len(root.ideos)
     /\ ~IdeoSkipped(root.ideos[ideo_index]))
    => duplicate_precepts = EmptyCollection

\* C10: when no precept name occurs twice within any ideology, no prompt is
\* issued and every precepts list stays as it was.
C10_NoDuplicatesNoChange ==
    NoDuplicateNames(OrigTree) => prompts = <<>> /\ root = OrigTree

C10_Witness ==
    /\ pc = "parse_ideo"
    /\ ideo_index > Len(root.ideos)
    /\ Len(root.ideos) = 2
    /\ NoDuplicateNames(OrigTree)
    /\ Len(found_precepts) >= 2
    /\ Len(root.ideos[1].precepts) >= 2
    /\ Len(root.ideos[2].precepts) >= 2
    /\ root.ideos[1].precepts[1].name = root.ideos[2].precepts[1].name
    /\ root.ideos[1].precepts[1].def = root.ideos[2].precepts[1].def

\* the positions of the entries of es that carry the name n and are not
\* skipped
Occurrences(es, n) == {i \in DOMAIN es : Usable(es[i]) /\ es[i].name = n}

\* the confirmed removals of entries named n from the m-th ideology
Removals(m, n) ==
    {k \in DOMAIN prompts :
        prompts[k].ideo = m /\ prompts[k].name = n /\ prompts[k].answer}

\* C11: for a name that three entries of one ideology carry (fresh tracker),
\* after one confirmed removal the report at the end of the scan says that
\* one more duplicate of that name remains.
C11_ResidualAfterOneRemoval ==
    FirstIdeoScanned =>
       \A n \in Range(NameOrder) :
          (/\ Cardinality(Occurrences(found_precepts, n)) = 3
           /\ Cardinality(Removals(1, n)) = 1)
          => <<n, 1>> \in residual

\* a step that asks for a confirmation and gets the answer no
Declined ==
    /\ Len(prompts') = Len(prompts) + 1
    /\ ~prompts'[Len(prompts')].answer

\* C12: a declined prompt leaves the entry in the precepts list and leaves
\* the four dictionaries of the tracker as they were.
C12_DeclineChangesNothing ==
    [][Declined =>
          /\ precept_index \in kept'
          /\ root' = root
          /\ duplicate_precepts' = duplicate_precepts]_vars

C12_Witness ==
    /\ pc = "clean"
    /\ prompts # <<>>
    /\ ~prompts[Len(prompts)].answer
    /\ prompts[Len(prompts)].ideo = ideo_index
    /\ precept_index = prompts[Len(prompts)].pos + 1
    /\ prompts[Len(prompts)].pos \in kept
    /\ count(duplicate_precepts, prompts[Len(prompts)].name) > 1

\* the names that the entries of es that are not skipped carry
NamesOf(es) == {es[i].name : i \in {j \in DOMAIN es : Usable(es[j])}}

\* C13: after the second pass over one ideology (fresh tracker, any
\* answers), every name of the ideology is left with exactly one entry that
\* is not skipped, or the report after the loop names it.
C13_OneLeftOrReported ==
    FirstIdeoScanned =>
       \A n \in NamesOf(found_precepts) :
          \/ Cardinality(Occurrences(root.ideos[1].precepts, n)) = 1
          \/ \E r \in residual : r[1] = n

\* the entry a prompt was about is the first one of its name in its
\* ideology, in document order
FirstOfItsName(p) ==
    \A i \in Occurrences(OrigTree.ideos[p.ideo].precepts, p.name) : p.pos <= i

\* C14: the entry that is first in document order among the entries of one
\* name in an ideology is never prompted for (and so never removed),
\* whatever the definition identifiers of those entries are.
C14_FirstSightingKept ==
    \A k \in DOMAIN prompts : ~FirstOfItsName(prompts[k])

\* C15: under any sequence of append, remove(def_name=...) and
\* remove(name=...), no count is negative, every identifier with a count
\* has a recorded name, and a removal that meets a count of 0 leaves it at 0
\* and raises nothing.
C15_TrackerInvariant ==
    LET dp == duplicate_precepts IN
    /\ \A n \in DOMAIN dp.names : dp.names[n] >= 0
    /\ \A d \in DOMAIN dp.def_names : dp.def_names[d] >= 0
    /\ \A d \in DOMAIN dp.def_names :
          d \in DOMAIN dp.defs_to_names /\ dp.defs_to_names[d] \in DOMAIN dp.names
    /\ \A d \in DOMAIN dp.def_names :
          (dp.def_names[d] = 0 \/ dp.names[dp.defs_to_names[d]] = 0) =>
             /\ ~remove_by_def_raises(dp, d)
             /\ dp.def_names[d] = 0 => remove_by_def(dp, d).def_names[d] = 0
             /\ dp.names[dp.defs_to_names[d]] = 0 =>
                   remove_by_def(dp, d).names[dp.defs_to_names[d]] = 0
    /\ \A n \in DOMAIN dp.names :
          /\ ~remove_by_name_raises(dp, n)
          /\ dp.names[n] = 0 => remove_by_name(dp, n).names[n] = 0
          /\ \A d \in Range(dp.names_to_defs[n]) :
                dp.def_names[d] = 0 => remove_by_name(dp, n).def_names[d] = 0

C15_Witness ==
    LET dp == duplicate_precepts IN
    /\ pc = "tracker"
    /\ \E d \in DOMAIN dp.def_names, n \in DOMAIN dp.names :
          /\ dp.def_names[d] = 0
          /\ dp.names[dp.defs_to_names[d]] = 0
          /\ n # dp.defs_to_names[d]
          /\ d \in Range(dp.names_to_defs[n])
          /\ dp.names[n] > 0

\* a step of the second pass that removes the entry it is at
Removed == pc = "clean" /\ kept' # kept

\* C16: every removal of an entry with name n and definition identifier d
\* in the second pass lowers the definition count of d by one and the name
\* count of n by one.
C16_PairMovesTogether ==
    [][Removed =>
          LET e == found_precepts[precept_index] IN
          /\ duplicate_precepts'.def_names[e.def] =
                duplicate_precepts.def_names[e.def] - 1
          /\ duplicate_precepts'.names[e.name] =
                duplicate_precepts.names[e.name] - 1]_vars

\* a step of the second pass that asks for a confirmation
Prompted == Len(prompts') = Len(prompts) + 1

\* C17: the second pass asks about an entry it does not skip exactly when
\* the entry's name is a key of the name counts, its definition identifier
\* is a key of the definition counts and the count of its name is greater
\* than 1; it removes an entry only on an accepted prompt about that entry;
\* and no name count grows during the pass, so once the count of a name is
\* down to 1 no later entry of that name is asked about or removed.
C17_RemovalGuard ==
    [][(pc = "clean" /\ precept_index <= Len(found_precepts)) =>
          LET e == found_precepts[precept_index]
              dp == duplicate_precepts
          IN  /\ (~e.cls /\ e.name # None /\ e.def # None) =>
                    (Prompted <=>
                        /\ e.name \in DOMAIN dp.names
                        /\ e.def \in DOMAIN dp.def_names
                        /\ (IF e.name \in DOMAIN dp.names
                            THEN dp.names[e.name] ELSE 1) > 1)
              /\ Prompted =>
                    /\ prompts'[Len(prompts')].name = e.name
                    /\ prompts'[Len(prompts')].def = e.def
                    /\ prompts'[Len(prompts')].pos = precept_index
              /\ kept' # kept =>
                    /\ Prompted
                    /\ prompts'[Len(prompts')].answer
                    /\ kept' = kept \ {precept_index}
              /\ root'.ideos[ideo_index].precepts = Children(found_precepts, kept', 1)
              /\ DOMAIN duplicate_precepts'.names = DOMAIN dp.names
              /\ \A n \in DOMAIN dp.names :
                    duplicate_precepts'.names[n] <= dp.names[n]]_vars

\* one removal was confirmed, the count of the name is 1, and two entries of
\* the name that came after the removed one were left alone
C17_Witness ==
    /\ pc = "clean"
    /\ precept_index > Len(found_precepts)
    /\ \E k \in DOMAIN prompts :
          /\ prompts[k].ideo = ideo_index
          /\ prompts[k].answer
          /\ duplicate_precepts.names[prompts[k].name] = 1
          /\ Cardinality({i \in Occurrences(found_precepts, prompts[k].name) :
                             i > prompts[k].pos /\ i \in kept}) >= 2

\* an entry with the "Class" attribute, or without the text of a name, or
\* without the text of a definition identifier
SkippedEntry(e) == e.cls \/ e.name = None \/ e.def = None
OtherEntry(e) == ~SkippedEntry(e)

\* C18: an entry with the "Class" attribute or without a name or a
\* definition identifier is never recorded in the tracker, never asked about
\* and never removed, and the scan goes on after it: the first pass records
\* what it would record without such entries, the second pass steps over
\* them to the next entry, and an ideology without a name or a precepts
\* list is stepped over to the next ideology, with nothing changed and the
\* run not aborted.
C18_SkippedUntouched ==
    [][/\ (pc = "parse_ideo" /\ pc' = "clean") =>
             duplicate_precepts' =
                first_pass(duplicate_precepts, SelectSeq(found_precepts', OtherEntry))
       /\ \A k \in DOMAIN prompts' :
             OtherEntry(OrigTree.ideos[prompts'[k].ideo].precepts[prompts'[k].pos])
       /\ \A m \in DOMAIN root'.ideos :
             SelectSeq(root'.ideos[m].precepts, SkippedEntry) =
                SelectSeq(OrigTree.ideos[m].precepts, SkippedEntry)
       /\ (/\ pc = "clean"
           /\ precept_index <= Len(found_precepts)
           /\ SkippedEntry(found_precepts[precept_index])) =>
             /\ pc' = "clean"
             /\ precept_index' = precept_index + 1
             /\ outcome' = None
             /\ UNCHANGED <<root, kept, duplicate_precepts, prompts, ideo_index>>
       /\ (/\ pc = "parse_ideo"
           /\ ideo_index <= Len(root.ideos)
           /\ (root.ideos[ideo_index].name = None
                 \/ ~root.ideos[ideo_index].hasPrecepts)) =>
             /\ pc' = "parse_ideo"
             /\ ideo_index' = ideo_index + 1
             /\ outcome' = None
             /\ UNCHANGED <<root, duplicate_precepts, prompts>>]_vars

\* the scan is over; the first entry of an ideology carries the "Class"
\* attribute and is still there, and a later entry of the same name and
\* definition identifier was asked about and removed
C18_Witness ==
    /\ pc = "parse_ideo"
    /\ ideo_index > Len(root.ideos)
    /\ \E k \in DOMAIN prompts :
          LET es == OrigTree.ideos[prompts[k].ideo].precepts IN
          /\ prompts[k].answer
          /\ prompts[k].pos > 1
          /\ es[1].cls
          /\ es[1].name = prompts[k].name
          /\ es[1].def = prompts[k].def
          /\ root.ideos[prompts[k].ideo].precepts[1] = es[1]
          /\ Len(root.ideos[prompts[k].ideo].precepts) = Len(es) - 1

\* C19: every name that an entry of an ideology carried before the run
\* (an entry that is not skipped) is still carried by an entry of that
\* ideology's precepts list, whatever the identifiers and the answers.
C19_NoNameDeleted ==
    \A m \in DOMAIN root.ideos :
       \A n \in NamesOf(OrigTree.ideos[m].precepts) :
          \E i \in DOMAIN root.ideos[m].precepts : root.ideos[m].precepts[i].name = n

\* C20: a run that ends with exit code 0 ("Done!" or "No Changes") leaves a
\* file at the target path: none ends with the file moved to its backup
\* name and nothing written back.
C20_TargetLeftInPlace ==
    (pc = "exit" /\ ExitCode(outcome) = 0) =>
       /\ exists(fs, file_path)
       /\ backup_file # NoPath => fs[file_path] = encode(new_file_contents)

C20_Witness ==
    /\ pc = "exit"
    /\ ExitCode(outcome) = 0
    /\ backup_file # NoPath
    /\ fs[backup_file] = file_contents
    /\ fs[file_path] = file_contents
    /\ ~exists(fs_start, backup_file)

====
